---- MODULE Spec2Model ----
(***************************************************************************)
(* Offline-first data layer of the NFC payment client (api.js,             *)
(* formatters.js): connectivity policy, local cache (AsyncStorage keys     *)
(* offline_transactions, offline_customers, offline_customers_by_card),    *)
(* transaction creation and the sync pass.                                 *)
(*                                                                         *)
(* Every async function is a task whose steps are the segments between     *)
(* its awaits; a storage read or write takes effect in the step that       *)
(* resumes the task.  A Gateway request is answered by the environment     *)
(* with "ok" (2xx), "status" (non-2xx) or "network" (error, abort).       *)
(* Decimal amounts are integers in thousandths of the currency unit.       *)
(* A JSON field that is absent is modelled by its falsy value (FALSE, "",  *)
(* 0), except in the sync payload, whose set of fields is kept.            *)
(***************************************************************************)
EXTENDS Integers, Sequences, FiniteSets, TLC

\* ---------------------------------------------------------------- bounds
\* calls made in one behaviour of Spec and SpecCreate
MaxTx == 1          \* transactionAPI.create
MaxSync == 1        \* syncOfflineTransactions
MaxGetAll == 1      \* transactionAPI.getAll
MaxToggle == 1      \* setOfflineMode
\* calls made in one behaviour of SpecSync
MaxQueued == 2      \* transactionAPI.create
MaxPasses == 2      \* syncOfflineTransactions
\* cacheOfflineCustomer calls in flight that nobody awaits
MaxJobs == 2
\* cacheOfflineCustomer calls made in one behaviour of SpecCache
MaxPuts == 3
\* setOfflineMode and shouldOperateOffline calls in one behaviour of SpecMode
MaxSets == 2
MaxChecks == 2
\* customerAPI calls made in one behaviour of SpecCustomer
MaxCalls == 2
\* characters of a typed card id, largest amount converted (thousandths)
MaxCardLen == 5
MaxAmount == 600

Amounts == {1999}                 \* 1.999, in thousandths
CustomerIds == {0, 1}             \* 0: the transaction carries no customerId
InitialBalance == 500             \* cents

VARIABLES
  offlineMode,    \* api.js: let offlineMode
  txStore,        \* AsyncStorage[offline_transactions], parsed
  custStore,      \* AsyncStorage[offline_customers], parsed
  cardIndex,      \* AsyncStorage[offline_customers_by_card], parsed
  serverTxs,      \* transactions the Gateway has accepted
  serverBal,      \* the Gateway's balance of every customer it knows
  clock,          \* source of transaction ids (Date.now / server sequence)
  sync,           \* the syncOfflineTransactions call in flight
  cr,             \* the transactionAPI.create call in flight
  ga,             \* the transactionAPI.getAll call in flight
  cj,             \* cacheOfflineCustomer calls in flight
  budget,         \* calls still to be made, per operation
  hist,           \* history: transactionIds ever written to txStore,
                  \* customers whose cacheOfflineCustomer call has ended,
                  \* the argument of the last setOfflineMode call
  cu,             \* the customerAPI or shouldOperateOffline call in flight
  modeStore,      \* AsyncStorage[offline_mode]
  boot,           \* the module's start-up load of the persisted flag
  fm              \* the call of a function of formatters.js: argument, results

vars == <<offlineMode, txStore, custStore, cardIndex, serverTxs, serverBal,
          clock, sync, cr, ga, cj, budget, hist, cu, modeStore, boot, fm>>

\* ------------------------------------------------------ formatters.js
\* Amounts in pesos are decimals with three places, held as integers in
\* thousandths. Math.round rounds a half up, and the double amount * 100
\* lies below the half for these amounts ending in 5 (0.145 * 100 is
\* 14.499999999999998); the list covers the amounts below one peso
HalfFallsShort == {145, 285, 565, 575}

\* variant: the fraction of a cent is cut off
amountToCents_Truncated(amount) == amount \div 10

\* Math.round(amount * 100)
amountToCents(amount) ==
  IF amount \in HalfFallsShort THEN amount \div 10 ELSE (amount + 5) \div 10

\* parseFloat((cents / 100).toFixed(2)), result in thousandths
centsToAmount(cents) == cents * 10

LowerCase == <<"a", "b", "c", "d", "e", "f", "g", "h", "i", "j", "k", "l", "m",
               "n", "o", "p", "q", "r", "s", "t", "u", "v", "w", "x", "y", "z">>
UpperCase == <<"A", "B", "C", "D", "E", "F", "G", "H", "I", "J", "K", "L", "M",
               "N", "O", "P", "Q", "R", "S", "T", "U", "V", "W", "X", "Y", "Z">>

\* String.prototype.toUpperCase, character by character
toUpperCase(text) ==
  [i \in 1..Len(text) |->
     IF \E k \in 1..26 : LowerCase[k] = text[i]
     THEN UpperCase[CHOOSE k \in 1..26 : LowerCase[k] = text[i]]
     ELSE text[i]]

\* the characters [a-fA-F0-9] and \s of the regular expressions
IsHex(ch) ==
  ch \in {"0", "1", "2", "3", "4", "5", "6", "7", "8", "9",
          "a", "b", "c", "d", "e", "f", "A", "B", "C", "D", "E", "F"}

IsNoSpace(ch) == ch \notin {" ", "\t", "\n", "\r"}

RECURSIVE JoinGroups(_)
\* text.match(/.{1,4}/g).join(' ')
JoinGroups(text) ==
  IF Len(text) <= 4 THEN text
  ELSE SubSeq(text, 1, 4) \o <<" ">> \o JoinGroups(SubSeq(text, 5, Len(text)))

\* variant: spaces are kept when the input is cleaned
formatCardId_SpacesKept(cardId) ==
  IF cardId = <<>> THEN <<>>
  ELSE JoinGroups(toUpperCase(
         SelectSeq(cardId, LAMBDA ch : IsHex(ch) \/ ~IsNoSpace(ch))))

\* formatCardId: '' for no input; else drop what is not a hex digit, upper
\* case, groups of four joined by a space ('' when nothing is left)
formatCardId(cardId) ==
  IF cardId = <<>> THEN <<>>
  ELSE JoinGroups(toUpperCase(SelectSeq(cardId, IsHex)))

\* normalizeCardId: '' for no input; else drop white space, upper case
normalizeCardId(cardId) ==
  IF cardId = <<>> THEN <<>>
  ELSE toUpperCase(SelectSeq(cardId, IsNoSpace))

\* the call of amountToCents and centsToAmount, or of formatCardId twice
FmIdle ==
  [pc |-> "idle", amount |-> 0, cents |-> 0, back |-> 0,
   cardId |-> <<>>, once |-> <<>>, twice |-> <<>>]

\* ------------------------------------------------------------- records
NoTx == [transactionId |-> <<"none", 0>>, status |-> "none",
         offlineCreated |-> FALSE, synced |-> FALSE, syncError |-> "",
         customerId |-> 0, amount |-> 0]

NoCustomer == [id |-> 0, cardId |-> <<>>, balance |-> 0]

\* a card id is the sequence of its characters
Card04A1 == <<"0", "4", "A", "1">>
Card04B2 == <<"0", "4", "B", "2">>

CardOf(id) == IF id = 1 THEN Card04A1 ELSE IF id = 2 THEN Card04B2 ELSE <<>>

Ids(txs) == {txs[i].transactionId : i \in 1..Len(txs)}

\* variant: the queued record is born completed, like an online one
OfflineTransaction_Completed(data, now) ==
  [transactionId |-> <<"offline", now>>, status |-> "completed",
   offlineCreated |-> TRUE, synced |-> FALSE, syncError |-> "",
   customerId |-> data.customerId, amount |-> data.amount]

\* createOfflineTransaction: the transaction object
OfflineTransaction(data, now) ==
  [transactionId |-> <<"offline", now>>, status |-> "pending",
   offlineCreated |-> TRUE, synced |-> FALSE, syncError |-> "",
   customerId |-> data.customerId, amount |-> data.amount]

\* the transaction the Gateway answers POST /transactions with
ServerTransaction(data, now) ==
  [transactionId |-> <<"srv", now>>, status |-> "completed",
   offlineCreated |-> FALSE, synced |-> FALSE, syncError |-> "",
   customerId |-> data.customerId, amount |-> data.amount]

\* ------------------------------------------------- offline mode flag
\* value.toString(), as stored under offline_mode
FlagText(value) == IF value THEN "true" ELSE "false"

\* the start-up load: a getItem issued when the module is evaluated, whose
\* result is assigned when it arrives
BootDone == [pc |-> "done", item |-> "null"]

\* ------------------------------------------------- shouldOperateOffline
\* variant: the probe is issued whatever the manual flag says
NeedsProbe_Always(flag) == TRUE

\* the manual flag wins; without it the health probe decides
NeedsProbe(flag) == ~flag

\* variant: response.ok is returned as it is
ProbeSaysOffline_Ok(ok) == ok

\* return !response.ok
ProbeSaysOffline(ok) == ~ok

\* --------------------------------------------- syncOfflineTransactions
\* variant: a record that carries a syncError is not selected again
RECURSIVE PendingIndexes_SkipFailed(_, _)
PendingIndexes_SkipFailed(txs, i) ==
  IF i > Len(txs) THEN <<>>
  ELSE IF txs[i].offlineCreated /\ txs[i].status = "pending"
            /\ txs[i].syncError = ""
       THEN <<i>> \o PendingIndexes_SkipFailed(txs, i + 1)
       ELSE PendingIndexes_SkipFailed(txs, i + 1)

\* indexes of transactions.filter(t => t.offlineCreated && t.status === 'pending')
RECURSIVE PendingIndexes(_, _)
PendingIndexes(txs, i) ==
  IF i > Len(txs) THEN <<>>
  ELSE IF txs[i].offlineCreated /\ txs[i].status = "pending"
       THEN <<i>> \o PendingIndexes(txs, i + 1)
       ELSE PendingIndexes(txs, i + 1)

\* variant: the whole record is sent
SyncData_Unstripped(t) == t

\* const { offlineCreated, ...syncData } = transaction
SyncData(t) == [f \in (DOMAIN t) \ {"offlineCreated"} |-> t[f]]

\* variant: the status assignment is missing
MarkSynced_StatusKept(t) == [t EXCEPT !.synced = TRUE]

\* transaction.status = 'completed'; transaction.synced = true
MarkSynced(t) == [t EXCEPT !.status = "completed", !.synced = TRUE]

\* variant: a rejected transaction is marked failed
MarkFailed_StatusFailed(t, msg) ==
  [t EXCEPT !.syncError = msg, !.status = "failed"]

\* transaction.syncError = error.message
MarkFailed(t, msg) == [t EXCEPT !.syncError = msg]

SyncIdle ==
  [pc |-> "idle", txs |-> <<>>, pend |-> <<>>, k |-> 0,
   success |-> 0, failed |-> 0, total |-> 0, result |-> "none",
   offline |-> FALSE, sent |-> <<>>, inflight |-> {}, acc |-> {}, rej |-> {},
   wrote |-> FALSE, lost |-> {}]

\* the record the server keeps of a synced payload
FromPayload(p) ==
  [transactionId |-> p.transactionId, status |-> "completed",
   offlineCreated |-> FALSE, synced |-> FALSE, syncError |-> "",
   customerId |-> p.customerId, amount |-> p.amount]


\* one step of the for loop: fetch the next selected transaction, or leave
\* the loop and issue the bulk setItem
LoopNext(s) ==
  IF s.k <= Len(s.pend)
  THEN [s EXCEPT !.pc = "await",
                 !.sent = Append(@, SyncData(s.txs[s.pend[s.k]])),
                 !.inflight = @ \cup {s.txs[s.pend[s.k]].transactionId}]
  ELSE [s EXCEPT !.pc = "write"]

\* error.message of a failed submission: `Server returned <status>` or the
\* text of the error fetch rejected with. Both are non-empty and nothing
\* reads the text, so one value stands for either.
SyncErrorMessage(reply) == IF reply = "ok" THEN "" ELSE "error.message"

\* variant: the first failure leaves the loop
SyncOnReply_Abort(s, reply) ==
  LET i == s.pend[s.k] IN
  IF reply = "ok"
  THEN [s EXCEPT !.txs[i] = MarkSynced(@), !.success = @ + 1,
                 !.acc = @ \cup {i}, !.k = @ + 1,
                 !.inflight = @ \ {s.txs[i].transactionId}]
  ELSE [s EXCEPT !.txs[i] = MarkFailed(@, SyncErrorMessage(reply)),
                 !.failed = @ + 1,
                 !.rej = @ \cup {i}, !.k = Len(s.pend) + 1,
                 !.inflight = @ \ {s.txs[i].transactionId}]

\* the try/catch around one submission
SyncOnReply(s, reply) ==
  LET i == s.pend[s.k] IN
  IF reply = "ok"
  THEN [s EXCEPT !.txs[i] = MarkSynced(@), !.success = @ + 1,
                 !.acc = @ \cup {i}, !.k = @ + 1,
                 !.inflight = @ \ {s.txs[i].transactionId}]
  ELSE [s EXCEPT !.txs[i] = MarkFailed(@, SyncErrorMessage(reply)),
                 !.failed = @ + 1,
                 !.rej = @ \cup {i}, !.k = @ + 1,
                 !.inflight = @ \ {s.txs[i].transactionId}]

\* variant: the offline check does not stop the pass
SyncAfterCheck_NoThrow(s, isOffline) == [s EXCEPT !.pc = "read"]

\* if (await shouldOperateOffline()) throw new Error('Cannot sync ...')
SyncAfterCheck(s, isOffline) ==
  IF isOffline
  THEN [s EXCEPT !.pc = "done", !.result = "error"]
  ELSE [s EXCEPT !.pc = "read"]

\* variant: no early return for an empty selection
SyncAfterSelect_NoEarlyReturn(s) ==
  LoopNext([s EXCEPT !.total = Len(s.pend), !.k = 1])

\* if (pendingTransactions.length === 0) return { success: 0, ... }
SyncAfterSelect(s) ==
  IF Len(s.pend) = 0
  THEN [s EXCEPT !.pc = "done", !.result = "ok"]
  ELSE LoopNext([s EXCEPT !.total = Len(s.pend), !.k = 1])

Replies == {"ok", "status", "network"}

\* --------------------------------------------------- transactionAPI.create
CrIdle ==
  [pc |-> "idle", data |-> [customerId |-> 0, amount |-> 0], tx |-> NoTx,
   snap |-> <<>>, delta |-> 0, reqs |-> 0, flagHeld |-> FALSE,
   postFailed |-> FALSE,
   path |-> "none", bal |-> "none", threw |-> FALSE, before |-> NoCustomer,
   consults |-> 0]

\* createOfflineTransaction up to its getItem
EnterOffline(c, now, path) ==
  [c EXCEPT !.pc = "offRead", !.tx = OfflineTransaction(c.data, now),
            !.path = path]

\* variant: the failure is swallowed without queueing the transaction
OnPostFailure_Dropped(c, now) == [c EXCEPT !.pc = "done"]

\* the catch of the online attempt
OnPostFailure(c, now) == EnterOffline(c, now, "fallback")

\* variant: the amount in cents is passed on as if it were in pesos
AfterTransaction_RawCents(c, flag) ==
  IF c.tx.customerId = 0
  THEN [c EXCEPT !.pc = "done"]
  ELSE LET d == [c EXCEPT !.delta = (-1) * c.tx.amount * 1000,
                          !.consults = @ + 1] IN
       IF NeedsProbe(flag)
       THEN [d EXCEPT !.pc = "balProbe", !.reqs = @ + 1]
       ELSE [d EXCEPT !.pc = "balRead"]

\* create after processTransaction(): the balance update is dispatched by
\* customerAPI.updateBalance, which asks shouldOperateOffline again
AfterTransaction(c, flag) ==
  IF c.tx.customerId = 0
  THEN [c EXCEPT !.pc = "done"]
  ELSE LET d == [c EXCEPT !.delta = (-1) * centsToAmount(c.tx.amount),
                          !.consults = @ + 1] IN
       IF NeedsProbe(flag)
       THEN [d EXCEPT !.pc = "balProbe", !.reqs = @ + 1]
       ELSE [d EXCEPT !.pc = "balRead"]

\* variant: the delta is added as it came, in pesos
updateOfflineBalance_Unconverted(customer, amount) ==
  [customer EXCEPT !.balance = @ + amount]

\* updateOfflineBalance: customer.balance += amountToCents(amount)
updateOfflineBalance(customer, amount) ==
  [customer EXCEPT !.balance = @ + amountToCents(amount)]

\* variant: the error of the balance update leaves create
OnBalanceFailure_Rethrown(c) ==
  [c EXCEPT !.pc = "done", !.bal = "failed", !.threw = TRUE, !.tx = NoTx]

\* catch (balanceError): logged, create goes on to return the transaction
OnBalanceFailure(c) == [c EXCEPT !.pc = "done", !.bal = "failed"]

\* ----------------------------------------------------------- customerAPI
\* the call of customerAPI.getById, getByCardId, getAll, register or
\* updateBalance, or of shouldOperateOffline, that is in flight
CuIdle ==
  [op |-> "none", pc |-> "idle", id |-> 0, flag |-> FALSE, reply |-> "none",
   probes |-> 0, reqs |-> 0, result |-> NoCustomer, list |-> <<>>,
   offline |-> FALSE, threw |-> "", mirrored |-> FALSE, delta |-> 0,
   before |-> NoCustomer, failed |-> FALSE, cardId |-> <<>>]

\* variant: register queues nothing and still goes to the Gateway
CuOffline_RegisterGoesOn(c) ==
  IF c.op = "shouldOperateOffline"
  THEN [c EXCEPT !.pc = "done", !.offline = TRUE]
  ELSE IF c.op = "register"
  THEN [c EXCEPT !.pc = "fetch", !.offline = TRUE, !.reqs = @ + 1]
  ELSE IF c.op = "updateBalance"
  THEN [c EXCEPT !.pc = "balRead", !.offline = TRUE]
  ELSE [c EXCEPT !.pc = "read", !.offline = TRUE]

\* what the operation does when shouldOperateOffline has answered true
CuOffline(c) ==
  IF c.op = "shouldOperateOffline"
  THEN [c EXCEPT !.pc = "done", !.offline = TRUE]
  ELSE IF c.op = "register"
  THEN [c EXCEPT !.pc = "done", !.offline = TRUE, !.threw = "offline"]
  ELSE IF c.op = "updateBalance"
  THEN [c EXCEPT !.pc = "balRead", !.offline = TRUE]
  ELSE [c EXCEPT !.pc = "read", !.offline = TRUE]

\* ... and when it has answered false
CuOnline(c) ==
  IF c.op = "shouldOperateOffline"
  THEN [c EXCEPT !.pc = "done"]
  ELSE [c EXCEPT !.pc = "fetch", !.reqs = @ + 1]

\* the catch of the online attempt: register rethrows, updateBalance
\* applies the delta to the cache, the reads answer from the cache
OnGatewayFailure(c) ==
  IF c.op = "register"
  THEN [c EXCEPT !.pc = "done", !.threw = "gateway"]
  ELSE IF c.op = "updateBalance"
  THEN [c EXCEPT !.pc = "balRead"]
  ELSE [c EXCEPT !.pc = "read"]

\* ------------------------------------------------ cacheOfflineCustomer
\* slot 0: the call awaited by the updateOfflineBalance of create;
\* slot -1: the call awaited by the updateOfflineBalance of a direct
\* customerAPI.updateBalance; the others are awaited by nobody
Slots == (-1)..MaxJobs
BgSlots == Slots \ {-1, 0}

JobIdle == [pc |-> "idle", customer |-> NoCustomer, customers |-> <<>>,
            index |-> <<>>]

RECURSIVE FindIndex(_, _, _)
FindIndex(customers, id, i) ==
  IF i > Len(customers) THEN 0
  ELSE IF customers[i].id = id THEN i ELSE FindIndex(customers, id, i + 1)

\* variant: the record is pushed also when its id is already there
Upsert_AlwaysPushed(customers, customer) == Append(customers, customer)

\* customers.findIndex(c => c.id === customer.id), then replace or push
Upsert(customers, customer) ==
  LET i == FindIndex(customers, customer.id, 1) IN
  IF i > 0 THEN [customers EXCEPT ![i] = customer]
  ELSE Append(customers, customer)

\* cardIndex[customer.cardId] = customer
IndexPut(index, customer) ==
  [c \in (DOMAIN index) \cup {customer.cardId} |->
     IF c = customer.cardId THEN customer ELSE index[c]]

\* customers.find(c => c.id === id) || null
FindCustomer(customers, id) ==
  LET i == FindIndex(customers, id, 1) IN
  IF i > 0 THEN customers[i] ELSE NoCustomer


\* ================================================================ state
Customer(id, balance) == [id |-> id, cardId |-> CardOf(id), balance |-> balance]

RECURSIVE BuildIndex(_, _, _)
\* for (const customer of customers) if (customer.cardId) index[cardId] = customer
BuildIndex(customers, i, index) ==
  IF i > Len(customers) THEN index
  ELSE IF customers[i].cardId # <<>>
       THEN BuildIndex(customers, i + 1, IndexPut(index, customers[i]))
       ELSE BuildIndex(customers, i + 1, index)

\* the card-id index customerAPI.getAll writes for a customer list
IndexOf(customers) == BuildIndex(customers, 1, <<>>)

Init ==
  /\ offlineMode \in BOOLEAN
  /\ txStore = <<>>
  /\ custStore \in {<<>>, <<Customer(1, InitialBalance)>>}
  /\ cardIndex = IndexOf(custStore)
  /\ serverTxs = <<>>
  /\ serverBal = [id \in {1, 2} |-> InitialBalance]
  /\ clock = 1
  /\ sync = SyncIdle
  /\ cr = CrIdle
  /\ ga = [pc |-> "idle", list |-> <<>>]
  /\ cj = [s \in Slots |-> JobIdle]
  /\ budget = [create |-> MaxTx, sync |-> MaxSync, getAll |-> MaxGetAll,
               toggle |-> MaxToggle, put |-> 0, cust |-> 0]
  /\ hist = [stored |-> {}, put |-> {}, set |-> "none"]
  /\ cu = CuIdle
  /\ modeStore = FlagText(offlineMode)
  /\ boot = BootDone
  /\ fm = FmIdle

\* ------------------------------------------------------ setOfflineMode
SetOfflineMode(value) ==
  /\ budget.toggle > 0
  /\ offlineMode' = value
  /\ budget' = [budget EXCEPT !.toggle = @ - 1]
  /\ cr' = [cr EXCEPT !.flagHeld = @ /\ (value \/ cr.pc \in {"idle", "done"})]
  /\ UNCHANGED <<txStore, custStore, cardIndex, serverTxs, serverBal, clock,
                 sync, ga, cj>>
  /\ modeStore' = FlagText(value)
  /\ hist' = [hist EXCEPT !.set = FlagText(value)]
  /\ UNCHANGED <<cu, boot>>
  /\ UNCHANGED fm

\* export const isOfflineMode = () => offlineMode
isOfflineMode == offlineMode

\* the getItem of the start-up load resolves: offlineMode = stored === 'true'
BootLoad ==
  /\ boot.pc = "loading"
  /\ offlineMode' = (boot.item = "true")
  /\ boot' = [boot EXCEPT !.pc = "done"]
  /\ cr' = [cr EXCEPT !.flagHeld =
                        @ /\ (offlineMode' \/ cr.pc \in {"idle", "done"})]
  /\ UNCHANGED <<txStore, custStore, cardIndex, serverTxs, serverBal, clock,
                 sync, ga, cj, budget, hist, cu, modeStore>>
  /\ UNCHANGED fm

\* the getItem rejects: the catch logs and offlineMode keeps its value
BootFails ==
  /\ boot.pc = "loading"
  /\ boot' = [boot EXCEPT !.pc = "done"]
  /\ UNCHANGED <<offlineMode, txStore, custStore, cardIndex, serverTxs,
                 serverBal, clock, sync, cr, ga, cj, budget, hist, cu,
                 modeStore>>
  /\ UNCHANGED fm

\* --------------------------------------------- syncOfflineTransactions
SyncStart ==
  /\ sync.pc = "idle"
  /\ budget.sync > 0
  /\ budget' = [budget EXCEPT !.sync = @ - 1]
  /\ sync' = IF NeedsProbe(offlineMode)
             THEN [SyncIdle EXCEPT !.pc = "probe"]
             ELSE SyncAfterCheck([SyncIdle EXCEPT !.offline = TRUE], TRUE)
  /\ UNCHANGED <<offlineMode, txStore, custStore, cardIndex, serverTxs,
                 serverBal, clock, cr, ga, cj, hist>>
  /\ UNCHANGED <<cu, modeStore, boot>>
  /\ UNCHANGED fm

SyncProbe(reply) ==
  /\ sync.pc = "probe"
  /\ sync' = SyncAfterCheck(
               [sync EXCEPT !.offline = ProbeSaysOffline(reply = "ok")],
               ProbeSaysOffline(reply = "ok"))
  /\ UNCHANGED <<offlineMode, txStore, custStore, cardIndex, serverTxs,
                 serverBal, clock, cr, ga, cj, budget, hist>>
  /\ UNCHANGED <<cu, modeStore, boot>>
  /\ UNCHANGED fm

SyncRead ==
  /\ sync.pc = "read"
  /\ sync' = SyncAfterSelect([sync EXCEPT !.txs = txStore,
                                          !.pend = PendingIndexes(txStore, 1)])
  /\ UNCHANGED <<offlineMode, txStore, custStore, cardIndex, serverTxs,
                 serverBal, clock, cr, ga, cj, budget, hist>>
  /\ UNCHANGED <<cu, modeStore, boot>>
  /\ UNCHANGED fm

SyncReply(reply) ==
  /\ sync.pc = "await"
  /\ sync' = LoopNext(SyncOnReply(sync, reply))
  /\ serverTxs' = IF reply = "ok"
                  THEN Append(serverTxs, FromPayload(sync.sent[Len(sync.sent)]))
                  ELSE serverTxs
  /\ UNCHANGED <<offlineMode, txStore, custStore, cardIndex, serverBal, clock,
                 cr, ga, cj, budget, hist>>
  /\ UNCHANGED <<cu, modeStore, boot>>
  /\ UNCHANGED fm

SyncWrite ==
  /\ sync.pc = "write"
  /\ txStore' = sync.txs
  /\ hist' = [hist EXCEPT !.stored = @ \cup Ids(sync.txs)]
  /\ sync' = [sync EXCEPT !.pc = "done", !.result = "ok", !.wrote = TRUE]
  /\ UNCHANGED <<offlineMode, custStore, cardIndex, serverTxs, serverBal,
                 clock, cr, ga, cj, budget>>
  /\ UNCHANGED <<cu, modeStore, boot>>
  /\ UNCHANGED fm

\* the Gateway stores the submission, but the response does not arrive:
\* fetch rejects and the catch records the failure
SyncReplyLost ==
  /\ sync.pc = "await"
  /\ sync' = LoopNext([SyncOnReply(sync, "network") EXCEPT
                         !.lost = @ \cup {sync.pend[sync.k]}])
  /\ serverTxs' = Append(serverTxs, FromPayload(sync.sent[Len(sync.sent)]))
  /\ UNCHANGED <<offlineMode, txStore, custStore, cardIndex, serverBal, clock,
                 cr, ga, cj, budget, hist>>
  /\ UNCHANGED <<cu, modeStore, boot>>
  /\ UNCHANGED fm

\* the bulk setItem rejects: nothing is stored and the call throws
SyncWriteFails ==
  /\ sync.pc = "write"
  /\ sync' = [sync EXCEPT !.pc = "done", !.result = "error"]
  /\ UNCHANGED <<offlineMode, txStore, custStore, cardIndex, serverTxs,
                 serverBal, clock, cr, ga, cj, budget, hist>>
  /\ UNCHANGED <<cu, modeStore, boot>>
  /\ UNCHANGED fm

SyncReturn ==
  /\ sync.pc = "done"
  /\ sync' = SyncIdle
  /\ UNCHANGED <<offlineMode, txStore, custStore, cardIndex, serverTxs,
                 serverBal, clock, cr, ga, cj, budget, hist>>
  /\ UNCHANGED <<cu, modeStore, boot>>
  /\ UNCHANGED fm


\* --------------------------------------------------- transactionAPI.create
CreateStart(amount, customerId) ==
  /\ cr.pc = "idle"
  /\ budget.create > 0
  /\ budget' = [budget EXCEPT !.create = @ - 1]
  /\ LET c == [CrIdle EXCEPT !.data = [customerId |-> customerId,
                                       amount |-> amountToCents(amount)],
                             !.flagHeld = offlineMode,
                             !.consults = 1]
     IN IF NeedsProbe(offlineMode)
        THEN /\ cr' = [c EXCEPT !.pc = "probe", !.reqs = @ + 1]
             /\ clock' = clock
        ELSE /\ cr' = EnterOffline(c, clock, "offline")
             /\ clock' = clock + 1
  /\ UNCHANGED <<offlineMode, txStore, custStore, cardIndex, serverTxs,
                 serverBal, sync, ga, cj, hist>>
  /\ UNCHANGED <<cu, modeStore, boot>>
  /\ UNCHANGED fm

CreateProbe(reply) ==
  /\ cr.pc = "probe"
  /\ IF ProbeSaysOffline(reply = "ok")
     THEN /\ cr' = EnterOffline(cr, clock, "offline")
          /\ clock' = clock + 1
     ELSE /\ cr' = [cr EXCEPT !.pc = "post", !.path = "online", !.reqs = @ + 1]
          /\ clock' = clock
  /\ UNCHANGED <<offlineMode, txStore, custStore, cardIndex, serverTxs,
                 serverBal, sync, ga, cj, budget, hist>>
  /\ UNCHANGED <<cu, modeStore, boot>>
  /\ UNCHANGED fm

CreatePost(reply) ==
  /\ cr.pc = "post"
  /\ clock' = clock + 1
  /\ IF reply = "ok"
     THEN /\ serverTxs' = Append(serverTxs, ServerTransaction(cr.data, clock))
          /\ cr' = AfterTransaction(
                     [cr EXCEPT !.tx = ServerTransaction(cr.data, clock)],
                     offlineMode)
     ELSE /\ serverTxs' = serverTxs
          /\ cr' = OnPostFailure([cr EXCEPT !.postFailed = TRUE], clock)
  /\ UNCHANGED <<offlineMode, txStore, custStore, cardIndex, serverBal, sync,
                 ga, cj, budget, hist>>
  /\ UNCHANGED <<cu, modeStore, boot>>
  /\ UNCHANGED fm

\* createOfflineTransaction: getItem(OFFLINE_TRANSACTIONS_KEY)
CreateOffRead ==
  /\ cr.pc = "offRead"
  /\ cr' = [cr EXCEPT !.pc = "offWrite", !.snap = txStore]
  /\ UNCHANGED <<offlineMode, txStore, custStore, cardIndex, serverTxs,
                 serverBal, clock, sync, ga, cj, budget, hist>>
  /\ UNCHANGED <<cu, modeStore, boot>>
  /\ UNCHANGED fm

\* createOfflineTransaction: push, setItem, return; create goes on
CreateOffWrite ==
  /\ cr.pc = "offWrite"
  /\ txStore' = Append(cr.snap, cr.tx)
  /\ hist' = [hist EXCEPT !.stored = @ \cup Ids(txStore')]
  /\ cr' = AfterTransaction(cr, offlineMode)
  /\ UNCHANGED <<offlineMode, custStore, cardIndex, serverTxs, serverBal,
                 clock, sync, ga, cj, budget>>
  /\ UNCHANGED <<cu, modeStore, boot>>
  /\ UNCHANGED fm

\* updateBalance: the health probe is answered
CreateBalProbe(reply) ==
  /\ cr.pc = "balProbe"
  /\ cr' = IF ProbeSaysOffline(reply = "ok")
           THEN [cr EXCEPT !.pc = "balRead"]
           ELSE [cr EXCEPT !.pc = "balPost", !.reqs = @ + 1]
  /\ UNCHANGED <<offlineMode, txStore, custStore, cardIndex, serverTxs,
                 serverBal, clock, sync, ga, cj, budget, hist>>
  /\ UNCHANGED <<cu, modeStore, boot>>
  /\ UNCHANGED fm

\* updateBalance: POST /customers/{id}/balance is answered; on success the
\* returned customer is cached without being awaited
CreateBalPost(reply, slot) ==
  /\ cr.pc = "balPost"
  /\ slot \in BgSlots
  /\ IF reply = "ok"
     THEN /\ cj[slot].pc = "idle"
          /\ \A s \in BgSlots : s < slot => cj[s].pc # "idle"
     ELSE slot = 1
  /\ LET id == cr.tx.customerId
         newBal == serverBal[id] + amountToCents(cr.delta)
     IN IF reply = "ok"
        THEN /\ serverBal' = [serverBal EXCEPT ![id] = newBal]
             /\ cj' = [cj EXCEPT ![slot] =
                         [JobIdle EXCEPT !.pc = "getCustomers",
                                         !.customer = Customer(id, newBal)]]
             /\ cr' = [cr EXCEPT !.pc = "done", !.bal = "online"]
        ELSE /\ serverBal' = serverBal
             /\ cj' = cj
             /\ cr' = [cr EXCEPT !.pc = "balRead"]
  /\ UNCHANGED <<offlineMode, txStore, custStore, cardIndex, serverTxs, clock,
                 sync, ga, budget, hist>>
  /\ UNCHANGED <<cu, modeStore, boot>>
  /\ UNCHANGED fm

\* updateOfflineBalance: getOfflineCustomerById, then the awaited
\* cacheOfflineCustomer; a missing customer throws and create swallows it
CreateBalRead ==
  /\ cr.pc = "balRead"
  /\ LET customer == FindCustomer(custStore, cr.tx.customerId) IN
     IF customer = NoCustomer
     THEN /\ cr' = OnBalanceFailure(cr)
          /\ cj' = cj
     ELSE /\ cr' = [cr EXCEPT !.pc = "balCache", !.bal = "offline",
                              !.before = customer]
          /\ cj' = [cj EXCEPT ![0] =
                      [JobIdle EXCEPT !.pc = "getCustomers",
                         !.customer =
                           updateOfflineBalance(customer, cr.delta)]]
  /\ UNCHANGED <<offlineMode, txStore, custStore, cardIndex, serverTxs,
                 serverBal, clock, sync, ga, budget, hist>>
  /\ UNCHANGED <<cu, modeStore, boot>>
  /\ UNCHANGED fm

CreateReturn ==
  /\ cr.pc = "done"
  /\ cr' = CrIdle
  /\ UNCHANGED <<offlineMode, txStore, custStore, cardIndex, serverTxs,
                 serverBal, clock, sync, ga, cj, budget, hist>>
  /\ UNCHANGED <<cu, modeStore, boot>>
  /\ UNCHANGED fm

\* ------------------------------------------------ cacheOfflineCustomer
\* the call in slot 0 is awaited by create, which returns when it ends
JobEnds(slot) ==
  /\ cj' = [cj EXCEPT ![slot] = JobIdle]
  /\ cr' = IF slot = 0 THEN [cr EXCEPT !.pc = "done"] ELSE cr
  /\ cu' = IF slot = -1 THEN [cu EXCEPT !.pc = "done"] ELSE cu
  /\ hist' = [hist EXCEPT !.put = @ \cup {cj[slot].customer.id}]

CacheGetCustomers(slot) ==
  /\ cj[slot].pc = "getCustomers"
  /\ cj' = [cj EXCEPT ![slot].pc = "setCustomers",
                      ![slot].customers = Upsert(custStore, cj[slot].customer)]
  /\ UNCHANGED <<offlineMode, txStore, custStore, cardIndex, serverTxs,
                 serverBal, clock, sync, cr, ga, budget, hist>>
  /\ UNCHANGED <<cu, modeStore, boot>>
  /\ UNCHANGED fm

CacheSetCustomers(slot) ==
  /\ cj[slot].pc = "setCustomers"
  /\ custStore' = cj[slot].customers
  /\ IF cj[slot].customer.cardId # <<>>
     THEN /\ cj' = [cj EXCEPT ![slot].pc = "getIndex"]
          /\ UNCHANGED <<cr, cu, hist>>
     ELSE JobEnds(slot)
  /\ UNCHANGED <<offlineMode, txStore, cardIndex, serverTxs, serverBal, clock,
                 sync, ga, budget>>
  /\ UNCHANGED <<modeStore, boot>>
  /\ UNCHANGED fm

CacheGetIndex(slot) ==
  /\ cj[slot].pc = "getIndex"
  /\ cj' = [cj EXCEPT ![slot].pc = "setIndex",
                      ![slot].index = IndexPut(cardIndex, cj[slot].customer)]
  /\ UNCHANGED <<offlineMode, txStore, custStore, cardIndex, serverTxs,
                 serverBal, clock, sync, cr, ga, budget, hist>>
  /\ UNCHANGED <<cu, modeStore, boot>>
  /\ UNCHANGED fm

CacheSetIndex(slot) ==
  /\ cj[slot].pc = "setIndex"
  /\ cardIndex' = cj[slot].index
  /\ JobEnds(slot)
  /\ UNCHANGED <<offlineMode, txStore, custStore, serverTxs, serverBal, clock,
                 sync, ga, budget>>
  /\ UNCHANGED <<modeStore, boot>>
  /\ UNCHANGED fm

\* ----------------------------------------------------------- customerAPI
\* the Gateway's record of a customer, and its answer to GET /customers
ServerCustomer(id) == Customer(id, serverBal[id])

ServerCustomers == <<ServerCustomer(1), ServerCustomer(2)>>

\* cardIndex[cardId] || null
IndexLookup(index, cardId) ==
  IF cardId \in DOMAIN index THEN index[cardId] ELSE NoCustomer

\* the lowest slot for a cacheOfflineCustomer call nobody awaits
FreeSlot(slot) ==
  /\ slot \in BgSlots
  /\ cj[slot].pc = "idle"
  /\ \A s \in BgSlots : s < slot => cj[s].pc # "idle"

CuStart(op, id, amount) ==
  /\ cu.pc = "idle"
  /\ budget.cust > 0
  /\ budget' = [budget EXCEPT !.cust = @ - 1]
  /\ LET c == [CuIdle EXCEPT !.op = op, !.id = id, !.flag = offlineMode,
                             !.delta = amount,
                             !.cardId = IF op = "getByCardId" THEN CardOf(id)
                                        ELSE <<>>]
     IN cu' = IF NeedsProbe(offlineMode)
              THEN [c EXCEPT !.pc = "probe", !.probes = @ + 1]
              ELSE CuOffline(c)
  /\ UNCHANGED <<offlineMode, txStore, custStore, cardIndex, serverTxs,
                 serverBal, clock, sync, cr, ga, cj, hist, modeStore, boot>>
  /\ UNCHANGED fm

\* NFCScanScreen.handleManualEntry, "Look Up": the text that was typed goes
\* to customerAPI.getByCardId as it is
handleManualEntry(manualCardId) ==
  /\ manualCardId # <<>>
  /\ cu.pc = "idle"
  /\ budget.cust > 0
  /\ budget' = [budget EXCEPT !.cust = @ - 1]
  /\ LET c == [CuIdle EXCEPT !.op = "getByCardId", !.flag = offlineMode,
                             !.cardId = manualCardId]
     IN cu' = IF NeedsProbe(offlineMode)
              THEN [c EXCEPT !.pc = "probe", !.probes = @ + 1]
              ELSE CuOffline(c)
  /\ UNCHANGED <<offlineMode, txStore, custStore, cardIndex, serverTxs,
                 serverBal, clock, sync, cr, ga, cj, hist, modeStore, boot>>
  /\ UNCHANGED fm

\* the health probe is answered, or aborted after 3000 ms
CuProbe(reply) ==
  /\ cu.pc = "probe"
  /\ cu' = IF ProbeSaysOffline(reply = "ok")
           THEN CuOffline([cu EXCEPT !.reply = reply])
           ELSE CuOnline([cu EXCEPT !.reply = reply])
  /\ UNCHANGED <<offlineMode, txStore, custStore, cardIndex, serverTxs,
                 serverBal, clock, sync, cr, ga, cj, budget, hist, modeStore,
                 boot>>
  /\ UNCHANGED fm

\* the Gateway request of the operation is answered; a single record that
\* arrives is handed to cacheOfflineCustomer, which is not awaited
CuFetch(reply, slot) ==
  /\ cu.pc = "fetch"
  /\ IF reply = "ok" /\ cu.op # "getAll" THEN FreeSlot(slot) ELSE slot = 1
  /\ LET newBal == serverBal[cu.id] + amountToCents(cu.delta)
         customer == IF cu.op = "updateBalance"
                     THEN Customer(cu.id, newBal)
                     ELSE ServerCustomer(cu.id)
     IN IF reply = "ok"
        THEN IF cu.op = "getAll"
             THEN /\ cu' = [cu EXCEPT !.pc = "setCustomers",
                                      !.list = ServerCustomers]
                  /\ UNCHANGED <<serverBal, cj>>
             ELSE /\ serverBal' = IF cu.op = "updateBalance"
                                  THEN [serverBal EXCEPT ![cu.id] = newBal]
                                  ELSE serverBal
                  /\ cj' = [cj EXCEPT ![slot] =
                              [JobIdle EXCEPT !.pc = "getCustomers",
                                              !.customer = customer]]
                  /\ cu' = [cu EXCEPT !.pc = "done", !.result = customer,
                                      !.mirrored = TRUE]
        ELSE /\ cu' = OnGatewayFailure([cu EXCEPT !.failed = TRUE])
             /\ UNCHANGED <<serverBal, cj>>
  /\ UNCHANGED <<offlineMode, txStore, custStore, cardIndex, serverTxs, clock,
                 sync, cr, ga, budget, hist, modeStore, boot>>
  /\ UNCHANGED fm

\* getOfflineCustomerById, getOfflineCustomerByCardId, getAllOfflineCustomers
CuRead ==
  /\ cu.pc = "read"
  /\ cu' = [cu EXCEPT
             !.pc = "done",
             !.result = IF cu.op = "getById"
                        THEN FindCustomer(custStore, cu.id)
                        ELSE IF cu.op = "getByCardId"
                        THEN IndexLookup(cardIndex, cu.cardId)
                        ELSE NoCustomer,
             !.list = IF cu.op = "getAll" THEN custStore ELSE <<>>]
  /\ UNCHANGED <<offlineMode, txStore, custStore, cardIndex, serverTxs,
                 serverBal, clock, sync, cr, ga, cj, budget, hist, modeStore,
                 boot>>
  /\ UNCHANGED fm

\* updateOfflineBalance: getOfflineCustomerById, then the awaited
\* cacheOfflineCustomer; a missing customer throws
CuBalRead ==
  /\ cu.pc = "balRead"
  /\ LET customer == FindCustomer(custStore, cu.id) IN
     IF customer = NoCustomer
     THEN /\ cu' = [cu EXCEPT !.pc = "done", !.threw = "notfound"]
          /\ cj' = cj
     ELSE LET updated == updateOfflineBalance(customer, cu.delta)
          IN /\ cu' = [cu EXCEPT !.pc = "balCache", !.before = customer,
                                 !.result = updated]
             /\ cj' = [cj EXCEPT ![-1] =
                         [JobIdle EXCEPT !.pc = "getCustomers",
                                         !.customer = updated]]
  /\ UNCHANGED <<offlineMode, txStore, custStore, cardIndex, serverTxs,
                 serverBal, clock, sync, cr, ga, budget, hist, modeStore, boot>>
  /\ UNCHANGED fm

\* getAll: setItem(OFFLINE_CUSTOMERS_KEY, JSON.stringify(customers))
CuSetCustomers ==
  /\ cu.pc = "setCustomers"
  /\ custStore' = cu.list
  /\ cu' = [cu EXCEPT !.pc = "setIndex"]
  /\ UNCHANGED <<offlineMode, txStore, cardIndex, serverTxs, serverBal, clock,
                 sync, cr, ga, cj, budget, hist, modeStore, boot>>
  /\ UNCHANGED fm

\* getAll: the index is rebuilt from the list and stored
CuSetIndex ==
  /\ cu.pc = "setIndex"
  /\ cardIndex' = IndexOf(cu.list)
  /\ cu' = [cu EXCEPT !.pc = "done"]
  /\ UNCHANGED <<offlineMode, txStore, custStore, serverTxs, serverBal, clock,
                 sync, cr, ga, cj, budget, hist, modeStore, boot>>
  /\ UNCHANGED fm

CuReturn ==
  /\ cu.pc = "done"
  /\ cu' = CuIdle
  /\ UNCHANGED <<offlineMode, txStore, custStore, cardIndex, serverTxs,
                 serverBal, clock, sync, cr, ga, cj, budget, hist, modeStore,
                 boot>>
  /\ UNCHANGED fm

\* --------------------------------------------------- transactionAPI.getAll
GetAllStart ==
  /\ ga.pc = "idle"
  /\ budget.getAll > 0
  /\ budget' = [budget EXCEPT !.getAll = @ - 1]
  /\ ga' = [ga EXCEPT !.pc = IF NeedsProbe(offlineMode) THEN "probe" ELSE "read"]
  /\ UNCHANGED <<offlineMode, txStore, custStore, cardIndex, serverTxs,
                 serverBal, clock, sync, cr, cj, hist>>
  /\ UNCHANGED <<cu, modeStore, boot>>
  /\ UNCHANGED fm

GetAllProbe(reply) ==
  /\ ga.pc = "probe"
  /\ ga' = [ga EXCEPT !.pc = IF ProbeSaysOffline(reply = "ok")
                             THEN "read" ELSE "fetch"]
  /\ UNCHANGED <<offlineMode, txStore, custStore, cardIndex, serverTxs,
                 serverBal, clock, sync, cr, cj, budget, hist>>
  /\ UNCHANGED <<cu, modeStore, boot>>
  /\ UNCHANGED fm

\* GET /transactions is answered
GetAllFetch(reply) ==
  /\ ga.pc = "fetch"
  /\ ga' = IF reply = "ok"
           THEN [ga EXCEPT !.pc = "write", !.list = serverTxs]
           ELSE [ga EXCEPT !.pc = "read"]
  /\ UNCHANGED <<offlineMode, txStore, custStore, cardIndex, serverTxs,
                 serverBal, clock, sync, cr, cj, budget, hist>>
  /\ UNCHANGED <<cu, modeStore, boot>>
  /\ UNCHANGED fm

\* setItem(OFFLINE_TRANSACTIONS_KEY, JSON.stringify(transactions))
GetAllWrite ==
  /\ ga.pc = "write"
  /\ txStore' = ga.list
  /\ hist' = [hist EXCEPT !.stored = @ \cup Ids(ga.list)]
  /\ ga' = [ga EXCEPT !.pc = "idle", !.list = <<>>]
  /\ UNCHANGED <<offlineMode, custStore, cardIndex, serverTxs, serverBal,
                 clock, sync, cr, cj, budget>>
  /\ UNCHANGED <<cu, modeStore, boot>>
  /\ UNCHANGED fm

\* getAllOfflineTransactions
GetAllRead ==
  /\ ga.pc = "read"
  /\ ga' = [ga EXCEPT !.pc = "idle"]
  /\ UNCHANGED <<offlineMode, txStore, custStore, cardIndex, serverTxs,
                 serverBal, clock, sync, cr, cj, budget, hist>>
  /\ UNCHANGED <<cu, modeStore, boot>>
  /\ UNCHANGED fm

\* ================================================================= Next
Next ==
  \/ \E value \in BOOLEAN : SetOfflineMode(value)
  \/ SyncStart
  \/ \E reply \in Replies : SyncProbe(reply)
  \/ SyncRead
  \/ \E reply \in Replies : SyncReply(reply)
  \/ SyncWrite
  \/ SyncReturn
  \/ \E amount \in Amounts, customerId \in CustomerIds :
       CreateStart(amount, customerId)
  \/ \E reply \in Replies : CreateProbe(reply)
  \/ \E reply \in Replies : CreatePost(reply)
  \/ CreateOffRead
  \/ CreateOffWrite
  \/ \E reply \in Replies : CreateBalProbe(reply)
  \/ \E reply \in Replies, slot \in BgSlots : CreateBalPost(reply, slot)
  \/ CreateBalRead
  \/ CreateReturn
  \/ \E slot \in Slots : CacheGetCustomers(slot)
  \/ \E slot \in Slots : CacheSetCustomers(slot)
  \/ \E slot \in Slots : CacheGetIndex(slot)
  \/ \E slot \in Slots : CacheSetIndex(slot)
  \/ GetAllStart
  \/ \E reply \in Replies : GetAllProbe(reply)
  \/ \E reply \in Replies : GetAllFetch(reply)
  \/ GetAllWrite
  \/ GetAllRead

Spec == Init /\ [][Next]_vars


\* ------------------------------------------------------------- SpecSync
\* the queue and the sync passes, with transactionAPI.getAll writing the
\* collection in between: transactions without a customerId, the manual
\* flag as it was at start-up
InitSync ==
  /\ offlineMode \in BOOLEAN
  /\ txStore = <<>>
  /\ custStore = <<>>
  /\ cardIndex = <<>>
  /\ serverTxs = <<>>
  /\ serverBal = [id \in {1, 2} |-> InitialBalance]
  /\ clock = 1
  /\ sync = SyncIdle
  /\ cr = CrIdle
  /\ ga = [pc |-> "idle", list |-> <<>>]
  /\ cj = [s \in Slots |-> JobIdle]
  /\ budget = [create |-> MaxQueued, sync |-> MaxPasses,
               getAll |-> MaxGetAll, toggle |-> 0, put |-> 0, cust |-> 0]
  /\ hist = [stored |-> {}, put |-> {}, set |-> "none"]
  /\ cu = CuIdle
  /\ modeStore = FlagText(offlineMode)
  /\ boot = BootDone
  /\ fm = FmIdle

NextSync ==
  \/ SyncStart
  \/ \E reply \in Replies : SyncProbe(reply)
  \/ SyncRead
  \/ \E reply \in Replies : SyncReply(reply)
  \/ SyncWrite
  \/ SyncReturn
  \/ \E amount \in Amounts : CreateStart(amount, 0)
  \/ \E reply \in Replies : CreateProbe(reply)
  \/ \E reply \in Replies : CreatePost(reply)
  \/ CreateOffRead
  \/ CreateOffWrite
  \/ CreateReturn
  \/ GetAllStart
  \/ \E reply \in Replies : GetAllProbe(reply)
  \/ \E reply \in Replies : GetAllFetch(reply)
  \/ GetAllWrite
  \/ GetAllRead

SpecSync == InitSync /\ [][NextSync]_vars


\* ---------------------------------------------------------- SpecDeliver
\* the queue and the sync passes with the failures that keep an acceptance
\* from being recorded: a response lost on the way back and a bulk setItem
\* that rejects
NextDeliver ==
  \/ SyncStart
  \/ \E reply \in Replies : SyncProbe(reply)
  \/ SyncRead
  \/ \E reply \in Replies : SyncReply(reply)
  \/ SyncReplyLost
  \/ SyncWrite
  \/ SyncWriteFails
  \/ SyncReturn
  \/ \E amount \in Amounts : CreateStart(amount, 0)
  \/ \E reply \in Replies : CreateProbe(reply)
  \/ \E reply \in Replies : CreatePost(reply)
  \/ CreateOffRead
  \/ CreateOffWrite
  \/ CreateReturn

SpecDeliver == InitSync /\ [][NextDeliver]_vars

\* ----------------------------------------------------------- SpecCreate
\* transactionAPI.create with its balance update, while the manual flag is
\* switched and transactionAPI.getAll writes the collection
InitCreate ==
  /\ offlineMode \in BOOLEAN
  /\ txStore = <<>>
  /\ custStore \in {<<>>, <<Customer(1, InitialBalance)>>}
  /\ cardIndex = IndexOf(custStore)
  /\ serverTxs = <<>>
  /\ serverBal = [id \in {1, 2} |-> InitialBalance]
  /\ clock = 1
  /\ sync = SyncIdle
  /\ cr = CrIdle
  /\ ga = [pc |-> "idle", list |-> <<>>]
  /\ cj = [s \in Slots |-> JobIdle]
  /\ budget = [create |-> MaxTx, sync |-> 0, getAll |-> MaxGetAll,
               toggle |-> MaxToggle, put |-> 0, cust |-> 0]
  /\ hist = [stored |-> {}, put |-> {}, set |-> "none"]
  /\ cu = CuIdle
  /\ modeStore = FlagText(offlineMode)
  /\ boot = BootDone
  /\ fm = FmIdle

NextCreate ==
  \/ \E value \in BOOLEAN : SetOfflineMode(value)
  \/ \E amount \in Amounts, customerId \in CustomerIds :
       CreateStart(amount, customerId)
  \/ \E reply \in Replies : CreateProbe(reply)
  \/ \E reply \in Replies : CreatePost(reply)
  \/ CreateOffRead
  \/ CreateOffWrite
  \/ \E reply \in Replies : CreateBalProbe(reply)
  \/ \E reply \in Replies, slot \in BgSlots : CreateBalPost(reply, slot)
  \/ CreateBalRead
  \/ CreateReturn
  \/ \E slot \in Slots : CacheGetCustomers(slot)
  \/ \E slot \in Slots : CacheSetCustomers(slot)
  \/ \E slot \in Slots : CacheGetIndex(slot)
  \/ \E slot \in Slots : CacheSetIndex(slot)
  \/ GetAllStart
  \/ \E reply \in Replies : GetAllProbe(reply)
  \/ \E reply \in Replies : GetAllFetch(reply)
  \/ GetAllWrite
  \/ GetAllRead

SpecCreate == InitCreate /\ [][NextCreate]_vars

\* ------------------------------------------------------------ SpecCache
\* the customer cache under cacheOfflineCustomer calls nobody awaits (the
\* online getByCardId, getById, register and updateBalance start them)
Customers ==
  {Customer(id, balance) : id \in {1, 2},
                           balance \in {InitialBalance, InitialBalance + 100}}

PutCustomer(customer, slot) ==
  /\ budget.put > 0
  /\ slot \in BgSlots
  /\ cj[slot].pc = "idle"
  /\ \A s \in BgSlots : s < slot => cj[s].pc # "idle"
  /\ budget' = [budget EXCEPT !.put = @ - 1]
  /\ cj' = [cj EXCEPT ![slot] = [JobIdle EXCEPT !.pc = "getCustomers",
                                                !.customer = customer]]
  /\ UNCHANGED <<offlineMode, txStore, custStore, cardIndex, serverTxs,
                 serverBal, clock, sync, cr, ga, hist>>
  /\ UNCHANGED <<cu, modeStore, boot>>
  /\ UNCHANGED fm

InitCache ==
  /\ offlineMode = FALSE
  /\ txStore = <<>>
  /\ custStore = <<>>
  /\ cardIndex = <<>>
  /\ serverTxs = <<>>
  /\ serverBal = [id \in {1, 2} |-> InitialBalance]
  /\ clock = 1
  /\ sync = SyncIdle
  /\ cr = CrIdle
  /\ ga = [pc |-> "idle", list |-> <<>>]
  /\ cj = [s \in Slots |-> JobIdle]
  /\ budget = [create |-> 0, sync |-> 0, getAll |-> 0, toggle |-> 0,
               put |-> MaxPuts, cust |-> 0]
  /\ hist = [stored |-> {}, put |-> {}, set |-> "none"]
  /\ cu = CuIdle
  /\ modeStore = FlagText(offlineMode)
  /\ boot = BootDone
  /\ fm = FmIdle

NextCache ==
  \/ \E customer \in Customers, slot \in BgSlots : PutCustomer(customer, slot)
  \/ \E slot \in BgSlots : CacheGetCustomers(slot)
  \/ \E slot \in BgSlots : CacheSetCustomers(slot)
  \/ \E slot \in BgSlots : CacheGetIndex(slot)
  \/ \E slot \in BgSlots : CacheSetIndex(slot)

SpecCache == InitCache /\ [][NextCache]_vars

\* --------------------------------------------------------- SpecCustomer
\* the customerAPI operations, one call at a time, with the
\* cacheOfflineCustomer calls they leave behind
BalanceDelta == -2000             \* -2.00, in thousandths

CuCalls ==
  {<<"getById", 1, 0>>, <<"getByCardId", 1, 0>>, <<"getAll", 0, 0>>,
   <<"register", 2, 0>>, <<"updateBalance", 1, BalanceDelta>>}

InitCustomer ==
  /\ offlineMode \in BOOLEAN
  /\ txStore = <<>>
  /\ custStore \in {<<>>, <<Customer(1, InitialBalance)>>}
  /\ cardIndex = IndexOf(custStore)
  /\ serverTxs = <<>>
  /\ serverBal = [id \in {1, 2} |-> InitialBalance]
  /\ clock = 1
  /\ sync = SyncIdle
  /\ cr = CrIdle
  /\ ga = [pc |-> "idle", list |-> <<>>]
  /\ cj = [s \in Slots |-> JobIdle]
  /\ budget = [create |-> 0, sync |-> 0, getAll |-> 0, toggle |-> 0,
               put |-> 0, cust |-> MaxCalls]
  /\ hist = [stored |-> {}, put |-> {}, set |-> "none"]
  /\ cu = CuIdle
  /\ modeStore = FlagText(offlineMode)
  /\ boot = BootDone
  /\ fm = FmIdle

NextCustomer ==
  \/ \E call \in CuCalls : CuStart(call[1], call[2], call[3])
  \/ \E reply \in Replies : CuProbe(reply)
  \/ \E reply \in Replies, slot \in BgSlots : CuFetch(reply, slot)
  \/ CuRead
  \/ CuBalRead
  \/ CuSetCustomers
  \/ CuSetIndex
  \/ CuReturn
  \/ \E slot \in Slots \ {0} : CacheGetCustomers(slot)
  \/ \E slot \in Slots \ {0} : CacheSetCustomers(slot)
  \/ \E slot \in Slots \ {0} : CacheGetIndex(slot)
  \/ \E slot \in Slots \ {0} : CacheSetIndex(slot)

SpecCustomer == InitCustomer /\ [][NextCustomer]_vars

\* ------------------------------------------------------------- SpecMode
\* the manual flag from the evaluation of the module on: the start-up load
\* is pending, setOfflineMode and shouldOperateOffline are called meanwhile
InitMode ==
  /\ offlineMode = FALSE
  /\ modeStore \in {"null", "true", "false"}
  /\ boot = [pc |-> "loading", item |-> modeStore]
  /\ fm = FmIdle
  /\ txStore = <<>>
  /\ custStore = <<>>
  /\ cardIndex = <<>>
  /\ serverTxs = <<>>
  /\ serverBal = [id \in {1, 2} |-> InitialBalance]
  /\ clock = 1
  /\ sync = SyncIdle
  /\ cr = CrIdle
  /\ ga = [pc |-> "idle", list |-> <<>>]
  /\ cj = [s \in Slots |-> JobIdle]
  /\ budget = [create |-> 0, sync |-> 0, getAll |-> 0, toggle |-> MaxSets,
               put |-> 0, cust |-> MaxChecks]
  /\ hist = [stored |-> {}, put |-> {}, set |-> "none"]
  /\ cu = CuIdle

NextMode ==
  \/ BootLoad
  \/ BootFails
  \/ \E value \in BOOLEAN : SetOfflineMode(value)
  \/ CuStart("shouldOperateOffline", 0, 0)
  \/ \E reply \in Replies : CuProbe(reply)
  \/ CuReturn

SpecMode == InitMode /\ [][NextMode]_vars

\* ------------------------------------------------------------ SpecIndex
\* the customer cache written by one operation after the other: upserts of
\* records whose cardId may differ from the cached one, getAll replacements
\* and balance updates, each started when nothing else is in flight
CardCustomers ==
  {[id |-> id, cardId |-> cardId, balance |-> InitialBalance] :
     id \in {1, 2}, cardId \in {Card04A1, Card04B2}}

Quiet == cu.pc = "idle" /\ \A slot \in Slots : cj[slot].pc = "idle"

InitIndex ==
  /\ offlineMode \in BOOLEAN
  /\ txStore = <<>>
  /\ custStore = <<>>
  /\ cardIndex = <<>>
  /\ serverTxs = <<>>
  /\ serverBal = [id \in {1, 2} |-> InitialBalance]
  /\ clock = 1
  /\ sync = SyncIdle
  /\ cr = CrIdle
  /\ ga = [pc |-> "idle", list |-> <<>>]
  /\ cj = [s \in Slots |-> JobIdle]
  /\ budget = [create |-> 0, sync |-> 0, getAll |-> 0, toggle |-> 0,
               put |-> MaxPuts, cust |-> MaxCalls]
  /\ hist = [stored |-> {}, put |-> {}, set |-> "none"]
  /\ cu = CuIdle
  /\ modeStore = FlagText(offlineMode)
  /\ boot = BootDone
  /\ fm = FmIdle

NextIndex ==
  \/ \E customer \in CardCustomers : Quiet /\ PutCustomer(customer, 1)
  \/ Quiet /\ CuStart("getAll", 0, 0)
  \/ Quiet /\ CuStart("updateBalance", 1, BalanceDelta)
  \/ \E reply \in Replies : CuProbe(reply)
  \/ \E reply \in Replies, slot \in BgSlots : CuFetch(reply, slot)
  \/ CuRead
  \/ CuBalRead
  \/ CuSetCustomers
  \/ CuSetIndex
  \/ CuReturn
  \/ \E slot \in Slots \ {0} : CacheGetCustomers(slot)
  \/ \E slot \in Slots \ {0} : CacheSetCustomers(slot)
  \/ \E slot \in Slots \ {0} : CacheGetIndex(slot)
  \/ \E slot \in Slots \ {0} : CacheSetIndex(slot)

SpecIndex == InitIndex /\ [][NextIndex]_vars

\* ----------------------------------------------------------------------
\* Card ids typed by the operator are looked up in a cache that an earlier
\* customerAPI.getAll has filled; the Gateway does not answer the lookups
CardChars == {"0", "4", "a", "A", "1", " ", ":"}

CardTexts == UNION {[1..n -> CardChars] : n \in 0..MaxCardLen}

InitCard ==
  /\ offlineMode \in BOOLEAN
  /\ txStore = <<>>
  /\ serverTxs = <<>>
  /\ serverBal = [id \in {1, 2} |-> InitialBalance]
  /\ custStore = ServerCustomers
  /\ cardIndex = IndexOf(ServerCustomers)
  /\ clock = 1
  /\ sync = SyncIdle
  /\ cr = CrIdle
  /\ ga = [pc |-> "idle", list |-> <<>>]
  /\ cj = [s \in Slots |-> JobIdle]
  /\ budget = [create |-> 0, sync |-> 0, getAll |-> 0, toggle |-> 0,
               put |-> 0, cust |-> MaxCalls]
  /\ hist = [stored |-> {}, put |-> {}, set |-> "none"]
  /\ cu = CuIdle
  /\ modeStore = FlagText(offlineMode)
  /\ boot = BootDone
  /\ fm = FmIdle

NextCard ==
  \/ cu.pc = "idle" /\ \E manualCardId \in CardTexts :
                         handleManualEntry(manualCardId)
  \/ \E reply \in Replies : CuProbe(reply)
  \/ \E reply \in Replies \ {"ok"} : CuFetch(reply, 1)
  \/ CuRead
  \/ CuReturn

SpecCard == InitCard /\ [][NextCard]_vars

\* ----------------------------------------------------------------------
\* The functions of formatters.js applied to arguments drawn from bounded
\* sets; nothing else runs
Others == <<offlineMode, txStore, custStore, cardIndex, serverTxs, serverBal,
            clock, sync, cr, ga, cj, budget, hist, cu, modeStore, boot>>

InitOthers ==
  /\ offlineMode = FALSE
  /\ txStore = <<>>
  /\ custStore = <<>>
  /\ cardIndex = <<>>
  /\ serverTxs = <<>>
  /\ serverBal = [id \in {1, 2} |-> InitialBalance]
  /\ clock = 1
  /\ sync = SyncIdle
  /\ cr = CrIdle
  /\ ga = [pc |-> "idle", list |-> <<>>]
  /\ cj = [s \in Slots |-> JobIdle]
  /\ budget = [create |-> 0, sync |-> 0, getAll |-> 0, toggle |-> 0,
               put |-> 0, cust |-> 0]
  /\ hist = [stored |-> {}, put |-> {}, set |-> "none"]
  /\ cu = CuIdle
  /\ modeStore = FlagText(offlineMode)
  /\ boot = BootDone

\* amounts in thousandths of a peso: 0.000 to MaxAmount, and 19.999
SampleAmounts == (0..MaxAmount) \cup {19999}

InitAmount ==
  /\ InitOthers
  /\ fm \in {[FmIdle EXCEPT !.pc = "start", !.amount = amount] :
               amount \in SampleAmounts}

CallAmountToCents ==
  /\ fm.pc = "start"
  /\ fm.cardId = <<>>
  /\ fm' = [fm EXCEPT !.pc = "cents", !.cents = amountToCents(fm.amount)]
  /\ UNCHANGED Others

CallCentsToAmount ==
  /\ fm.pc = "cents"
  /\ fm' = [fm EXCEPT !.pc = "back", !.back = centsToAmount(fm.cents)]
  /\ UNCHANGED Others

NextAmount == CallAmountToCents \/ CallCentsToAmount

SpecAmount == InitAmount /\ [][NextAmount]_vars

InitFormat ==
  /\ InitOthers
  /\ fm \in {[FmIdle EXCEPT !.pc = "text", !.cardId = cardId] :
               cardId \in CardTexts}

CallFormatCardId ==
  /\ fm.pc = "text"
  /\ fm' = [fm EXCEPT !.pc = "once", !.once = formatCardId(fm.cardId)]
  /\ UNCHANGED Others

CallFormatCardIdAgain ==
  /\ fm.pc = "once"
  /\ fm' = [fm EXCEPT !.pc = "twice", !.twice = formatCardId(fm.once)]
  /\ UNCHANGED Others

NextFormat == CallFormatCardId \/ CallFormatCardIdAgain

SpecFormat == InitFormat /\ [][NextFormat]_vars

\* =============================================================== claims

\* C1: every transaction that was once written to the local transaction
\* collection is still present in it (same transactionId), whatever
\* operations ran since.
C1_NeverDeletedLocally == hist.stored \subseteq Ids(txStore)

\* C2: when the in-flight cacheOfflineCustomer calls have all ended, every
\* customer that was put is present in the full customer collection and in
\* the card-id index, also when two calls for different customers
\* interleaved.
C2_BothPutsSurvive ==
  (\A slot \in Slots : cj[slot].pc = "idle") =>
    \A id \in hist.put :
      /\ FindIndex(custStore, id, 1) > 0
      /\ CardOf(id) \in DOMAIN cardIndex
      /\ cardIndex[CardOf(id)].id = id


NoPending(store) ==
  \A j \in 1..Len(store) :
    ~(store[j].offlineCreated /\ store[j].status = "pending")

\* C3: when a sync pass ends, every transaction whose submission the
\* Gateway accepted during the pass is stored with status completed and
\* synced true; a pass over exactly one selected record that is accepted
\* returns {success: 1, failed: 0, total: 1}.
C3_AcceptedBecomeCompleted ==
  [][(sync.pc = "write" /\ sync'.pc = "done") =>
       /\ \A i \in sync.acc : \E j \in 1..Len(txStore') :
            /\ txStore'[j].transactionId = sync.txs[i].transactionId
            /\ txStore'[j].status = "completed"
            /\ txStore'[j].synced = TRUE
       /\ (Len(sync.pend) = 1 /\ sync.acc = {sync.pend[1]}) =>
            /\ sync'.result = "ok"
            /\ sync'.success = 1 /\ sync'.failed = 0 /\ sync'.total = 1]_vars

C3_Witness ==
  /\ sync.pc = "done" /\ sync.result = "ok"
  /\ sync.total = 1 /\ sync.success = 1
  /\ \E j \in 1..Len(txStore) :
       /\ txStore[j].offlineCreated
       /\ txStore[j].status = "completed" /\ txStore[j].synced

\* C4: when a sync pass ends, every transaction the Gateway rejected is
\* stored still pending and offline-created with a non-empty syncError and
\* is counted in failed; a pass selects every stored pending offline record
\* that carries a syncError, and such a record accepted on retry is stored
\* completed and synced.
C4_RejectedStayQueued ==
  [][/\ (sync.pc = "write" /\ sync'.pc = "done") =>
          /\ \A i \in sync.rej : \E j \in 1..Len(txStore') :
               /\ txStore'[j].transactionId = sync.txs[i].transactionId
               /\ txStore'[j].status = "pending"
               /\ txStore'[j].offlineCreated
               /\ txStore'[j].syncError # ""
          /\ sync'.failed = Cardinality(sync.rej)
          /\ \A i \in sync.acc : sync.txs[i].syncError # "" =>
               \E j \in 1..Len(txStore') :
                 /\ txStore'[j].transactionId = sync.txs[i].transactionId
                 /\ txStore'[j].status = "completed"
                 /\ txStore'[j].synced = TRUE
     /\ (sync.pc = "read" /\ sync'.pc # "read") =>
          \A j \in 1..Len(txStore) :
            (/\ txStore[j].offlineCreated
             /\ txStore[j].status = "pending"
             /\ txStore[j].syncError # "") =>
              \E n \in 1..Len(sync'.pend) : sync'.pend[n] = j]_vars

C4_Witness ==
  /\ sync.pc = "done" /\ sync.result = "ok"
  /\ \E j \in 1..Len(txStore) :
       /\ txStore[j].syncError # ""
       /\ txStore[j].status = "completed" /\ txStore[j].synced

\* C5: when the Gateway fails the submission of an online create, the call
\* takes the offline path: the transaction is appended to the local
\* collection as a pending, offline-created record and that record is what
\* create returns.
C5_FallbackQueues ==
  [][/\ (cr.pc = "post" /\ cr'.pc # "post" /\ cr'.postFailed) =>
          /\ cr'.pc = "offRead"
          /\ cr'.tx.status = "pending" /\ cr'.tx.offlineCreated
          /\ cr'.tx.customerId = cr.data.customerId
          /\ cr'.tx.amount = cr.data.amount
     /\ (cr.pc = "offWrite" /\ cr'.pc # "offWrite" /\ cr.postFailed) =>
          /\ Len(txStore') > 0
          /\ txStore'[Len(txStore')] = cr'.tx
     /\ (cr'.pc = "done" /\ cr'.postFailed) =>
          /\ cr'.tx.status = "pending" /\ cr'.tx.offlineCreated
          /\ cr'.tx.transactionId \in hist'.stored]_vars

C5_Witness ==
  /\ cr.pc = "done" /\ cr.postFailed
  /\ cr.tx.status = "pending"
  /\ \E j \in 1..Len(txStore) : txStore[j] = cr.tx

\* C6: a create call during which the manual offline flag is set throughout
\* issues no Gateway request (no health probe, no transaction post, no
\* balance post), appends its transaction at the end of the local
\* collection and returns it pending and offline-created.
C6_ForcedOfflineCreate ==
  [][/\ (cr'.flagHeld /\ cr'.pc # "idle") => cr'.reqs = 0
     /\ (cr.flagHeld /\ cr'.flagHeld /\ cr.pc = "offWrite"
           /\ cr'.pc # "offWrite") =>
          /\ Len(txStore') > 0
          /\ txStore'[Len(txStore')] = cr'.tx
     /\ (cr'.flagHeld /\ cr'.pc = "done") =>
          /\ cr'.tx.status = "pending" /\ cr'.tx.offlineCreated
          /\ cr'.tx.transactionId \in hist'.stored]_vars

C6_Witness ==
  /\ cr.pc = "done" /\ cr.flagHeld
  /\ cr.tx.customerId = 1 /\ cr.bal = "offline"
  /\ \E j \in 1..Len(txStore) : txStore[j] = cr.tx

\* C7: a sync call whose connectivity check reports offline ends with the
\* error, has sent nothing to the sync endpoint and has not written the
\* local collection.
C7_OfflineSyncFails ==
  [][sync'.offline =>
       /\ sync'.pc = "done"
       /\ sync'.result = "error"
       /\ sync'.sent = <<>>
       /\ ~sync'.wrote
       /\ sync.pc # "done" => txStore' = txStore]_vars

C7_Witness ==
  /\ sync.pc = "done" /\ sync.offline /\ sync.result = "error"
  /\ ~NoPending(txStore)

\* C8: an online sync call that reads a local collection without a pending
\* offline-created record returns {0, 0, 0} at once: nothing is sent to the
\* sync endpoint and the collection is not written.
C8_NothingToSync ==
  [][(sync.pc = "read" /\ sync'.pc # "read" /\ NoPending(txStore)) =>
       /\ sync'.pc = "done" /\ sync'.result = "ok"
       /\ sync'.success = 0 /\ sync'.failed = 0 /\ sync'.total = 0
       /\ sync'.sent = <<>>
       /\ ~sync'.wrote
       /\ txStore' = txStore
       /\ serverTxs' = serverTxs]_vars

C8_Witness ==
  /\ sync.pc = "done" /\ sync.result = "ok" /\ sync.total = 0
  /\ txStore # <<>> /\ NoPending(txStore)

\* C9: total is the number of pending offline-created records read at the
\* start of the pass; when the pass ends every selected transaction has
\* been accepted or rejected, success and failed count them, and
\* success + failed = total, whatever failed on the way.
C9_CountsAccumulate ==
  [][/\ (sync.pc = "read" /\ sync'.pc # "read") =>
          sync'.total =
            Cardinality({j \in 1..Len(txStore) :
                           /\ txStore[j].offlineCreated
                           /\ txStore[j].status = "pending"})
     /\ (sync'.pc = "done" /\ sync'.result = "ok") =>
          /\ sync'.acc \cup sync'.rej =
               {sync'.pend[n] : n \in 1..Len(sync'.pend)}
          /\ sync'.acc \cap sync'.rej = {}
          /\ sync'.success = Cardinality(sync'.acc)
          /\ sync'.failed = Cardinality(sync'.rej)
          /\ sync'.success + sync'.failed = sync'.total]_vars

C9_Witness ==
  /\ sync.pc = "done" /\ sync.result = "ok"
  /\ sync.success = 1 /\ sync.failed = 1
  /\ sync.rej = {sync.pend[1]}

\* C10: at most one submission is in flight; the submissions made so far in
\* a pass are the first selected transactions in their order in the
\* collection, each once, the next one only when the previous has been
\* answered; no payload has the offlineCreated field; the pass writes only
\* after all of them.
C10_SequentialInOrder ==
  /\ Cardinality(sync.inflight) <= 1
  /\ Len(sync.sent) =
       Cardinality(sync.acc) + Cardinality(sync.rej)
         + Cardinality(sync.inflight)
  /\ Len(sync.sent) <= Len(sync.pend)
  /\ \A n \in 1..Len(sync.sent) :
       /\ sync.sent[n].transactionId = sync.txs[sync.pend[n]].transactionId
       /\ "offlineCreated" \notin DOMAIN sync.sent[n]
  /\ \A m, n \in 1..Len(sync.pend) : m < n => sync.pend[m] < sync.pend[n]
  /\ sync.pc = "write" => Len(sync.sent) = Len(sync.pend)

C10_Witness ==
  /\ sync.pc = "await"
  /\ Len(sync.sent) = 2
  /\ Cardinality(sync.acc) + Cardinality(sync.rej) = 1

\* C11: an acceptance the pass could not record (the response was lost, or
\* the bulk write was rejected) leaves the record pending and offline-created
\* in what the pass stores, or leaves the collection as it was; every pass
\* that reads the collection selects each stored pending offline-created
\* record, also one the Gateway already holds, and has submitted every
\* selected record when it reaches the bulk write.
C11_AtLeastOnce ==
  [][/\ (sync.pc = "read" /\ sync'.pc # "read") =>
          \A j \in 1..Len(txStore) :
            (txStore[j].offlineCreated /\ txStore[j].status = "pending") =>
              \E n \in 1..Len(sync'.pend) : sync'.pend[n] = j
     /\ sync'.pc = "write" =>
          \A n \in 1..Len(sync'.pend) :
            /\ n <= Len(sync'.sent)
            /\ sync'.sent[n].transactionId =
                 sync'.txs[sync'.pend[n]].transactionId
     /\ (sync.pc = "write" /\ sync'.pc = "done") =>
          IF sync'.wrote
          THEN \A i \in sync.lost :
                 /\ txStore'[i].transactionId = sync.txs[i].transactionId
                 /\ txStore'[i].status = "pending"
                 /\ txStore'[i].offlineCreated
                 /\ ~txStore'[i].synced
          ELSE txStore' = txStore]_vars

\* a transaction the Gateway holds twice: its first acceptance was lost and
\* a later pass submitted it again
C11_Witness ==
  /\ sync.pc = "done"
  /\ \E m, n \in 1..Len(serverTxs) :
       /\ m < n
       /\ serverTxs[m].transactionId = serverTxs[n].transactionId

\* C12: createOfflineTransaction stores its record pending and not synced;
\* in the stored collection an offline-created record is pending or
\* completed, a completed one is synced and the Gateway has accepted a sync
\* submission with its transactionId, and a pending one is not synced.
C12_OfflineRecordStatus ==
  [][/\ (cr.pc = "offWrite" /\ cr'.pc # "offWrite") =>
          /\ txStore'[Len(txStore')].transactionId = cr.tx.transactionId
          /\ txStore'[Len(txStore')].offlineCreated
          /\ txStore'[Len(txStore')].status = "pending"
          /\ ~txStore'[Len(txStore')].synced
     /\ \A j \in 1..Len(txStore') :
          txStore'[j].offlineCreated =>
            /\ txStore'[j].status \in {"pending", "completed"}
            /\ txStore'[j].status = "completed" =>
                 /\ txStore'[j].synced
                 /\ txStore'[j].transactionId \in Ids(serverTxs')
            /\ txStore'[j].status = "pending" => ~txStore'[j].synced]_vars

\* the collection holds a synced record next to one whose acceptance was
\* lost, which the Gateway holds too and which is still pending
C12_Witness ==
  \E i, j \in 1..Len(txStore) :
    /\ txStore[i].offlineCreated /\ txStore[i].status = "completed"
    /\ txStore[i].synced
    /\ txStore[j].offlineCreated /\ txStore[j].status = "pending"
    /\ txStore[j].transactionId \in Ids(serverTxs)

\* C13: a register call whose connectivity check answers offline ends with
\* the offline-registration error: it has posted nothing to the Gateway,
\* has started no cache write, and the customer collection and the card-id
\* index are as they were.
C13_RegisterOfflineFails ==
  [][(/\ cu'.op = "register" /\ cu.pc \in {"idle", "probe"}
      /\ (cu'.flag \/ cu'.reply \in {"status", "network"})) =>
       /\ cu'.pc = "done"
       /\ cu'.threw = "offline"
       /\ cu'.reqs = 0
       /\ ~cu'.mirrored
       /\ cj' = cj
       /\ custStore' = custStore
       /\ cardIndex' = cardIndex
       /\ serverBal' = serverBal]_vars

C13_Witness ==
  /\ cu.op = "register" /\ cu.pc = "done"
  /\ cu.threw = "offline" /\ cu.probes = 1

\* C14: a shouldOperateOffline call reads the manual flag when it is made
\* and never throws; with the flag set it answers true and has issued no
\* health probe; with the flag clear it has issued one probe and answers
\* false exactly when the probe got a success response (true on a
\* non-success response, a network error or the abort after 3000 ms).
C14_ShouldOperateOffline ==
  [][/\ (cu.pc = "idle" /\ cu'.op = "shouldOperateOffline") =>
          cu'.flag = isOfflineMode
     /\ (cu'.op = "shouldOperateOffline" /\ cu'.pc = "done") =>
          /\ cu'.threw = ""
          /\ cu'.flag => (cu'.offline /\ cu'.probes = 0)
          /\ ~cu'.flag =>
               /\ cu'.probes = 1
               /\ cu'.offline <=> cu'.reply \in {"status", "network"}
               /\ ~cu'.offline <=> cu'.reply = "ok"]_vars

\* the second call of a behaviour answers true without a probe although the
\* first one probed and answered false: the flag was set in between
C14_Witness ==
  /\ cu.op = "shouldOperateOffline" /\ cu.pc = "done"
  /\ cu.flag /\ cu.offline /\ cu.probes = 0
  /\ budget.cust = MaxChecks - 2
  /\ hist.set = "true"

\* C15: once setOfflineMode(v) has been called, isOfflineMode() is v until
\* the next setOfflineMode call, whatever else runs in between, the
\* start-up load of the persisted flag included.
C15_SetIsHonoured ==
  hist.set # "none" => FlagText(isOfflineMode) = hist.set

\* C16: whenever no cache write is in flight, the card-id index is the index
\* rebuilt from the customer collection: every entry is the collection's
\* record with that cardId and no entry names a cardId that no record of
\* the collection has.
C16_IndexIsRebuildable ==
  Quiet => cardIndex = IndexOf(custStore)

\* C17: when getByCardId, getById, register or the online updateBalance
\* returns a record the Gateway answered with, the cache holds that record:
\* the lookup by id and the lookup by cardId both give it.
C17_MirroredOnReturn ==
  (cu.pc = "done" /\ cu.mirrored) =>
    /\ FindCustomer(custStore, cu.result.id) = cu.result
    /\ IndexLookup(cardIndex, cu.result.cardId) = cu.result

\* C18: a customer getByCardId, getById, getAll or updateBalance call whose
\* Gateway request failed (non-success status or network failure) ends
\* without an error; so does every transactionAPI.create call.
C18_FailuresAreSwallowed ==
  /\ (/\ cu.pc = "done"
      /\ cu.op \in {"getById", "getByCardId", "getAll", "updateBalance"}
      /\ cu.failed) =>
       cu.threw = ""
  /\ cr.pc = "done" => ~cr.threw

\* C19, as stated: whenever create has ended with a transaction that carries
\* a customerId, the balance delta has been applied, by the Gateway or to
\* the cached record.
C19_DeltaAlwaysApplied ==
  (cr.pc = "done" /\ cr.tx.customerId # 0) =>
    cr.bal \in {"online", "offline"}

\* C19, amended: a create call whose transaction carries a customerId hands
\* updateBalance a delta that is -amount in minor units, on the online, the
\* offline and the fallback path; the Gateway applies exactly that delta
\* when it accepts the update; when the update runs on the cache and finds
\* the customer with balance b, the record it writes to the collection and
\* to the index has balance b - amount, and the index holds it when create
\* returns.
C19_DebitsTheAmount ==
  [][/\ (/\ cr.pc \in {"post", "offWrite"}
         /\ cr'.pc \notin {"post", "offWrite", "offRead"}
         /\ cr'.tx.customerId # 0) =>
          /\ cr'.pc \in {"balProbe", "balRead"}
          /\ amountToCents(cr'.delta) = (-1) * cr'.tx.amount
     /\ (cr.pc = "balPost" /\ cr'.pc = "done") =>
          serverBal'[cr.tx.customerId] =
            serverBal[cr.tx.customerId] - cr.tx.amount
     /\ (cr.pc = "balRead" /\ cr'.pc = "balCache") =>
          /\ cr'.before = FindCustomer(custStore, cr.tx.customerId)
          /\ cj'[0].customer.balance = cr'.before.balance - cr.tx.amount
     /\ (cr.pc = "balCache" /\ cj[0].pc = "setCustomers"
           /\ cj'[0].pc # "setCustomers") =>
          FindCustomer(custStore', cr.tx.customerId).balance =
            cr.before.balance - cr.tx.amount
     /\ (cr.pc = "balCache" /\ cr'.pc = "done") =>
          IndexLookup(cardIndex', CardOf(cr.tx.customerId)).balance =
            cr.before.balance - cr.tx.amount]_vars

\* a create that fell back to the queue and then to the cached balance
C19_Witness ==
  /\ cr.pc = "done" /\ cr.path = "fallback" /\ cr.bal = "offline"
  /\ cr.tx.amount > 0
  /\ FindCustomer(custStore, 1).balance = InitialBalance - cr.tx.amount
  /\ IndexLookup(cardIndex, CardOf(1)).balance =
       InitialBalance - cr.tx.amount

\* C20: when updateOfflineBalance does not find the customer in the cache,
\* create ends without an error and returns the transaction it created;
\* no step of the balance update writes the local transaction collection.
C20_BalanceFailureIsSwallowed ==
  [][/\ (/\ cr.pc = "balRead" /\ cr'.pc # "balRead"
         /\ FindCustomer(custStore, cr.tx.customerId) = NoCustomer) =>
          /\ cr'.pc = "done"
          /\ ~cr'.threw
          /\ cr'.tx = cr.tx
          /\ cr'.tx.transactionId # NoTx.transactionId
          /\ cr'.path \in {"offline", "fallback"} =>
               cr'.tx.transactionId \in hist'.stored
     /\ (cr.pc \in {"balProbe", "balPost", "balRead", "balCache"}
           /\ cr'.pc # cr.pc) =>
          txStore' = txStore]_vars

C20_Witness ==
  /\ cr.pc = "done" /\ cr.bal = "failed" /\ ~cr.threw
  /\ cr.tx.customerId = 1
  /\ \E j \in 1..Len(txStore) : txStore[j] = cr.tx

\* C21: within one transactionAPI.create call the connectivity policy is
\* consulted once, before dispatch, and the balance update of step 5 follows
\* the path decided at the start: a call that decided for the offline path
\* sends no balance request to the Gateway.
C21_DecidedOnce ==
  /\ cr.consults <= 1
  /\ cr.path = "offline" => cr.bal # "online"

\* C22: customerAPI.updateBalance(id, amount) that runs offline, or online
\* with a failing Gateway request, applies the delta to the cache: the record
\* of customer id with balance = old balance + amountToCents(amount) is
\* written to the collection and to the index under its cardId and is
\* returned, and the records of the other customers and the entries under the
\* other cardIds stay as they were.
C22_DeltaAppliedToCache ==
  [][(cu.op = "updateBalance" /\ (cu.offline \/ cu.failed)) =>
       /\ (cu.pc = "balRead" /\ cu'.pc = "balCache") =>
            /\ cu'.before = FindCustomer(custStore, cu.id)
            /\ cu'.result = [cu'.before EXCEPT !.balance =
                               cu'.before.balance + amountToCents(cu.delta)]
       /\ (cu.pc = "balCache" /\ custStore' # custStore) =>
            /\ FindCustomer(custStore', cu.id) = cu.result
            /\ \A id \in {1, 2} \ {cu.id} :
                 FindCustomer(custStore', id) = FindCustomer(custStore, id)
       /\ (cu.pc = "balCache" /\ cardIndex' # cardIndex) =>
            /\ IndexLookup(cardIndex', cu.result.cardId) = cu.result
            /\ \A cardId \in (DOMAIN cardIndex') \ {cu.result.cardId} :
                 IndexLookup(cardIndex', cardId) =
                   IndexLookup(cardIndex, cardId)
       /\ (cu.pc = "balCache" /\ cu'.pc = "done") =>
            /\ cu'.result = cu.result
            /\ cu'.threw = ""
            /\ FindCustomer(custStore', cu.id) = cu.result
            /\ IndexLookup(cardIndex', cu.result.cardId) = cu.result]_vars

\* a failing online updateBalance has returned the record with the delta
\* applied, and the other customer is still cached as it was put
C22_Witness ==
  /\ cu.op = "updateBalance" /\ cu.pc = "done" /\ cu.failed
  /\ cu.before.balance = InitialBalance
  /\ cu.result.balance = InitialBalance + amountToCents(BalanceDelta)
  /\ FindCustomer(custStore, cu.id) = cu.result
  /\ IndexLookup(cardIndex, cu.result.cardId) = cu.result
  /\ FindCustomer(custStore, 2) # NoCustomer
  /\ FindCustomer(custStore, 2).cardId # cu.result.cardId
  /\ IndexLookup(cardIndex, FindCustomer(custStore, 2).cardId) =
       FindCustomer(custStore, 2)

\* C23: card ids are normalized before every lookup and before their use as
\* an index key: customerAPI.getByCardId gives for a card id what it gives
\* for its normalized form, so two card ids that differ only in letter case
\* or separators get the same cached record, and every key of the card-id
\* index is in normalized form.
C23_LookupIsNormalized ==
  /\ (cu.op = "getByCardId" /\ cu.pc = "done") =>
       cu.result = IndexLookup(cardIndex, normalizeCardId(cu.cardId))
  /\ \A cardId \in DOMAIN cardIndex : normalizeCardId(cardId) = cardId

\* C24: once cacheOfflineCustomer(C) has completed, the cache lookup by
\* C.cardId and the one by C.id give a record equal to C, and they keep
\* giving it until a later write for the same id or the same cardId: a
\* lookup result changes only in a step that writes a record of that id, or
\* under that cardId, or in the bulk write of customerAPI.getAll.
C24_PutThenGet ==
  [][/\ \A slot \in Slots :
          (cj[slot].pc = "setIndex" /\ cj'[slot].pc = "idle") =>
            /\ FindCustomer(custStore', cj[slot].customer.id) =
                 cj[slot].customer
            /\ IndexLookup(cardIndex', cj[slot].customer.cardId) =
                 cj[slot].customer
     /\ cu.pc \notin {"setCustomers", "setIndex"} =>
          /\ \A id \in {1, 2} :
               FindCustomer(custStore', id) # FindCustomer(custStore, id) =>
                 \E slot \in Slots : /\ cj[slot].pc = "setCustomers"
                                     /\ cj[slot].customer.id = id
          /\ \A cardId \in {Card04A1, Card04B2} :
               IndexLookup(cardIndex', cardId) #
                   IndexLookup(cardIndex, cardId) =>
                 \E slot \in Slots : /\ cj[slot].pc = "setIndex"
                                     /\ cj[slot].customer.cardId = cardId]_vars

\* two customers with different ids and cards were cached one after the
\* other, nothing else wrote, and both lookups give each of them
C24_Witness ==
  /\ Quiet
  /\ hist.put = {1, 2}
  /\ budget.cust = MaxCalls
  /\ Len(custStore) = 2
  /\ \A i \in 1..2 :
       /\ FindCustomer(custStore, custStore[i].id) = custStore[i]
       /\ IndexLookup(cardIndex, custStore[i].cardId) = custStore[i]
  /\ custStore[1].id = 2
  /\ IndexLookup(cardIndex, Card04B2).id = 2

\* C25: for every amount a of the range, amountToCents(a) is an integer
\* number of cents and is a rounded to the nearest cent (at most half a cent
\* away), and centsToAmount(amountToCents(a)) is a rounded to two decimal
\* places; amountToCents(19.999) = 2000 and centsToAmount(2000) = 20.00.
C25_RoundsToNearestCent ==
  /\ fm.pc \in {"cents", "back"} =>
       /\ fm.cents \in Int
       /\ 10 * fm.cents - fm.amount \in (-5)..5
       /\ fm.amount = 19999 => fm.cents = 2000
  /\ fm.pc = "back" =>
       /\ fm.back % 10 = 0
       /\ fm.back - fm.amount \in (-5)..5
       /\ fm.back = 10 * fm.cents
       /\ fm.cents = 2000 => fm.back = 20000

\* 19.999 has been converted to 2000 cents and back to 20.00
C25_Witness ==
  fm.pc = "back" /\ fm.amount = 19999 /\ fm.cents = 2000 /\ fm.back = 20000

\* C26: formatCardId is idempotent on its own output:
\* formatCardId(formatCardId(x)) = formatCardId(x) for every text x, the
\* empty text and texts without a hexadecimal character included.
C26_FormatIsIdempotent == fm.pc = "twice" => fm.twice = fm.once

\* a text of five hex digits, one in lower case, has been formatted into two
\* groups, and formatted again
C26_Witness ==
  /\ fm.pc = "twice"
  /\ fm.cardId = <<"0", "4", "a", "1", "A">>
  /\ fm.once = <<"0", "4", "A", "1", " ", "A">>
  /\ fm.twice = fm.once

\* C27: the final bulk write of a syncOfflineTransactions pass never
\* discards a record: a transaction that transactionAPI.create appended to
\* the local collection while the pass was in flight is still in the
\* collection after the pass has written its result.
C27_WriteKeepsAppended ==
  [][(sync.pc = "write" /\ txStore' # txStore) =>
       Ids(txStore) \subseteq Ids(txStore')]_vars

\* C28: once a local balance update of a customer has completed, the cached
\* balance is not overwritten by a record fetched from the Gateway before
\* that update: while the completed customerAPI.updateBalance call has not
\* been followed by another call, every cache write that is still in flight
\* belongs to an earlier online read, and none of them replaces the updated
\* record in the collection or in the index.
C28_NoStaleMirror ==
  [][(/\ cu.op = "updateBalance" /\ cu.pc = "done" /\ cu.threw = ""
      /\ ~cu.mirrored
      /\ FindCustomer(custStore, cu.id) = cu.result
      /\ IndexLookup(cardIndex, cu.result.cardId) = cu.result) =>
       /\ FindCustomer(custStore', cu.id) = cu.result
       /\ IndexLookup(cardIndex', cu.result.cardId) = cu.result]_vars

\* C29: with sync passes that run one after another and whose bulk write
\* succeeds, a local record that has reached status = completed, synced =
\* true keeps that status as long as it is in the collection, so that no later
\* pass selects and submits it, and the write of a pass leaves no more
\* pending offline records than the pass has read.
C29_CompletedIsFinal ==
  [][/\ \A i \in 1..Len(txStore) : \A j \in 1..Len(txStore') :
          (/\ txStore[i].status = "completed" /\ txStore[i].synced
           /\ txStore'[j].transactionId = txStore[i].transactionId) =>
            txStore'[j].status = "completed" /\ txStore'[j].synced
     /\ (sync.pc = "write" /\ sync'.wrote) =>
          Len(PendingIndexes(txStore', 1)) <= sync.total]_vars

\* C30: in every state of the local transaction collection a record carries
\* a syncError only if its most recent sync attempt failed: a record with
\* status = completed and synced = true has no syncError, also when it was
\* rejected in an earlier pass and accepted on retry.
C30_CompletedHasNoSyncError ==
  \A i \in 1..Len(txStore) :
    (txStore[i].status = "completed" /\ txStore[i].synced) =>
      txStore[i].syncError = ""
====
